---- MODULE Spec2Model ----
(***************************************************************************)
(* A model of src/todo/script.js: the TaskManager class (the task list,    *)
(* its operations and its persistence in localStorage) and the UI module   *)
(* (rows, remaining-count readout and the per-row event handlers).         *)
(*                                                                         *)
(* JavaScript objects have identity: the rows built by createTaskElement   *)
(* close over the very task objects the TaskManager holds.  The model      *)
(* keeps the objects in `heap` (object reference -> fields) and the list   *)
(* `tasks` as a sequence of references.                                    *)
(***************************************************************************)
EXTENDS Integers, Sequences, FiniteSets, TLC

VARIABLES
    heap,       \* the task objects alive: reference -> [id, text, completed, createdAt]
    tasks,      \* TaskManager.tasks: sequence of references into heap
    stored,     \* localStorage entry under "todo.tasks.v1"
    fails,      \* number of localStorage.setItem calls that threw so far
    last,       \* the call or handler that ran last, its inputs and its result
    rows,       \* the <li> rows of #task-list, in document order
    placeholder,\* TRUE when the "No tasks found." element is in #task-list
    remaining,  \* textContent of #remaining-count
    theme       \* the theme: body's data-theme, the toggle button, the entry "todo.theme.v1"

vars == <<heap, tasks, stored, fails, last, rows, placeholder, remaining, theme>>

(***************************************************************************)
(* Bounds                                                                  *)
(***************************************************************************)
MaxTasks == 2   \* longest list the model grows by addTask
MaxLen   == 2   \* longest input string
NumIds   == 2   \* size of the range of ID() the model draws from
MaxTime  == 1   \* Date.now() ranges over 0..MaxTime
MaxFails == 1   \* most storage writes that throw in one run

Chars == {" ", "a"}
IDs   == 1..NumIds
Times == 0..MaxTime

RECURSIVE StringsUpTo(_)
StringsUpTo(n) ==
    IF n = 0 THEN {<<>>}
    ELSE LET shorter == StringsUpTo(n - 1)
         IN shorter \cup {Append(s, c) : s \in {x \in shorter : Len(x) = n - 1}, c \in Chars}

InputTexts == StringsUpTo(MaxLen)

(***************************************************************************)
(* String.prototype.trim                                                   *)
(***************************************************************************)
RECURSIVE TrimLeft(_)
TrimLeft(s) ==
    IF s = <<>> THEN s
    ELSE IF Head(s) = " " THEN TrimLeft(Tail(s)) ELSE s

RECURSIVE TrimRight(_)
TrimRight(s) ==
    IF s = <<>> THEN s
    ELSE IF s[Len(s)] = " " THEN TrimRight(SubSeq(s, 1, Len(s) - 1)) ELSE s

TrimNoLeft(s) == TrimRight(s)

Trim(s) == TrimRight(TrimLeft(s))

TaskTexts == {Trim(s) : s \in InputTexts} \ {<<>>}

(***************************************************************************)
(* JSON.stringify / JSON.parse on the values the program stores            *)
(***************************************************************************)
JStr(s)  == [type |-> "string", str |-> s]
JBool(b) == [type |-> "boolean", bool |-> b]
JNum(n)  == [type |-> "number", num |-> n]
JNull    == [type |-> "null"]

NullVal  == [isNull |-> TRUE]
IsTask(v) == DOMAIN v = {"id", "text", "completed", "createdAt"}

Task(id, text, completed, createdAt) ==
    [id |-> id, text |-> text, completed |-> completed, createdAt |-> createdAt]

EncodeElem(v) ==
    IF IsTask(v)
    THEN [type |-> "object", id |-> JStr(v.id), text |-> JStr(v.text),
          completed |-> JBool(v.completed), createdAt |-> JNum(v.createdAt)]
    ELSE JNull

DecodeElem(j) ==
    IF j.type = "object"
    THEN Task(j.id.str, j.text.str, j.completed.bool, j.createdAt.num)
    ELSE NullVal

JSONstringify(list) ==
    [type |-> "array", items |-> [i \in 1..Len(list) |-> EncodeElem(list[i])]]

\* JSON.parse: throws on text that is not JSON, else the value
JSONparse(text) ==
    IF text.type \in {"garbage", "empty"} THEN [threw |-> TRUE, isArray |-> FALSE, items |-> <<>>]
    ELSE IF text.type = "array"
         THEN [threw |-> FALSE, isArray |-> TRUE,
               items |-> [i \in 1..Len(text.items) |-> DecodeElem(text.items[i])]]
         ELSE [threw |-> FALSE, isArray |-> FALSE, items |-> <<>>]

\* what localStorage holds under the key
Missing      == [kind |-> "missing"]
Entry(text)  == [kind |-> "text", text |-> text]
GarbageText  == [type |-> "garbage"]   \* e.g. "{oops"
EmptyText    == [type |-> "empty"]     \* ""
ScalarText   == JNum(0)                \* e.g. "0", valid JSON that is no array

(***************************************************************************)
(* Helpers on the list                                                     *)
(***************************************************************************)
Range(f) == {f[i] : i \in DOMAIN f}

Restrict(f, S) == [x \in S |-> f[x]]

\* the list as the program reads it: the objects behind the references
Deref(ts, hp) == [i \in 1..Len(ts) |-> hp[ts[i]]]

\* a reference no live object uses (a new object is distinct from all others)
FreeOid(used) ==
    CHOOSE o \in 1..(Cardinality(used) + 1) :
        o \notin used /\ \A p \in 1..(o - 1) : p \in used

\* Array.prototype.find(x => x.id === id): index of the first match, 0 if none
RECURSIVE FindFrom(_, _, _, _)
FindFrom(ts, hp, id, i) ==
    IF i > Len(ts) THEN 0
    ELSE IF hp[ts[i]].id = id THEN i ELSE FindFrom(ts, hp, id, i + 1)

FindIndex(ts, hp, id) == FindFrom(ts, hp, id, 1)

\* Array.prototype.filter: the elements at the indexes in K, in order
RECURSIVE KeepAt(_, _, _)
KeepAt(ts, K, i) ==
    IF i > Len(ts) THEN <<>>
    ELSE (IF i \in K THEN <<ts[i]>> ELSE <<>>) \o KeepAt(ts, K, i + 1)

Filter(ts, K) == KeepAt(ts, K, 1)

(***************************************************************************)
(* TaskManager                                                             *)
(***************************************************************************)
\* ID(): '_' + Math.random().toString(36).slice(2, 9): any string of its range
IDRange == IDs

\* load() returning the parsed array in reverse
loadReversed(entry, readOk) ==
    IF ~readOk \/ entry.kind = "missing" THEN <<>>
    ELSE IF entry.text.type = "empty" THEN <<>>
    ELSE LET parsed == JSONparse(entry.text)
         IN IF parsed.threw \/ ~parsed.isArray THEN <<>>
            ELSE [i \in 1..Len(parsed.items) |->
                     parsed.items[Len(parsed.items) + 1 - i]]

\* load(): the list the constructor assigns to this.tasks
load(entry, readOk) ==
    IF ~readOk THEN <<>>                                  \* getItem threw: catch
    ELSE IF entry.kind = "missing" THEN <<>>              \* !raw (null)
    ELSE IF entry.text.type = "empty" THEN <<>>           \* !raw ("")
    ELSE LET parsed == JSONparse(entry.text)
         IN IF parsed.threw THEN <<>>                     \* catch
            ELSE IF ~parsed.isArray THEN <<>>
            ELSE parsed.items

\* new TaskManager(): the loaded values become the objects of the list
HeapOf(vals)  == [o \in 1..Len(vals) |-> vals[o]]
RefsOf(vals)  == [i \in 1..Len(vals) |-> i]

\* save() with the storage write throwing and no catch around it
SaveNoCatch(list, st, ok) ==
    [stored |-> IF ok THEN Entry(JSONstringify(list)) ELSE st, threw |-> ~ok]

\* save(): ok = FALSE is localStorage.setItem throwing, which save() catches
Save(list, st, ok) ==
    [stored |-> IF ok THEN Entry(JSONstringify(list)) ELSE st, threw |-> FALSE]

Result(hp, ts, st, ret, ref, saved, threw) ==
    [heap |-> hp, tasks |-> ts, stored |-> st, ret |-> ret, ref |-> ref,
     saved |-> saved, threw |-> threw]

\* addTask() with push() in place of unshift()
addTaskPush(hp, ts, st, text, id, now, ok) ==
    LET task == Task(id, Trim(text), FALSE, now)
    IN IF task.text = <<>> THEN Result(hp, ts, st, "null", 0, FALSE, FALSE)
       ELSE LET o   == FreeOid(DOMAIN hp)
                hp2 == (o :> task) @@ hp
                ts2 == ts \o <<o>>
                sv  == Save(Deref(ts2, hp2), st, ok)
            IN Result(hp2, ts2, sv.stored, IF sv.threw THEN "Error" ELSE "task",
                      o, TRUE, sv.threw)

addTask(hp, ts, st, text, id, now, ok) ==
    LET task == Task(id, Trim(text), FALSE, now)
    IN IF task.text = <<>> THEN Result(hp, ts, st, "null", 0, FALSE, FALSE)
       ELSE LET o   == FreeOid(DOMAIN hp)
                hp2 == (o :> task) @@ hp
                ts2 == <<o>> \o ts
                sv  == Save(Deref(ts2, hp2), st, ok)
            IN Result(hp2, ts2, sv.stored, IF sv.threw THEN "Error" ELSE "task",
                      o, TRUE, sv.threw)

\* the partial record given to updateTask: the fields it gives and their values
Upd(fields, id, text, completed) ==
    [fields |-> fields, id |-> id, text |-> text, completed |-> completed]
NoUpd == Upd({}, 0, <<>>, FALSE)

\* Object.assign with a field the caller did not give overwritten as well
AssignAll(t, upd) ==
    [t EXCEPT !.id        = IF "id" \in upd.fields THEN upd.id ELSE @,
              !.text      = IF "text" \in upd.fields THEN upd.text ELSE @,
              !.completed = upd.completed]

\* Object.assign(t, updates)
Assign(t, upd) ==
    [t EXCEPT !.id        = IF "id" \in upd.fields THEN upd.id ELSE @,
              !.text      = IF "text" \in upd.fields THEN upd.text ELSE @,
              !.completed = IF "completed" \in upd.fields THEN upd.completed ELSE @]

\* updateTask() writing the changed record into the stored list in place of
\* writing the whole list
updateTaskPatch(hp, ts, st, id, upd, ok) ==
    LET i == FindIndex(ts, hp, id)
    IN IF i = 0 THEN Result(hp, ts, st, "false", 0, FALSE, FALSE)
       ELSE LET hp2 == [hp EXCEPT ![ts[i]] = Assign(@, upd)]
                old == load(st, TRUE)
                new == IF i <= Len(old) THEN [old EXCEPT ![i] = hp2[ts[i]]] ELSE old
                sv  == Save(new, st, ok)
            IN Result(hp2, ts, sv.stored, IF sv.threw THEN "Error" ELSE "true",
                      ts[i], TRUE, sv.threw)

updateTask(hp, ts, st, id, upd, ok) ==
    LET i == FindIndex(ts, hp, id)
    IN IF i = 0 THEN Result(hp, ts, st, "false", 0, FALSE, FALSE)
       ELSE LET hp2 == [hp EXCEPT ![ts[i]] = Assign(@, upd)]
                sv  == Save(Deref(ts, hp2), st, ok)
            IN Result(hp2, ts, sv.stored, IF sv.threw THEN "Error" ELSE "true",
                      ts[i], TRUE, sv.threw)

\* removeTask() without its call of save()
removeTaskNoSave(hp, ts, st, id, ok) ==
    LET ts2 == Filter(ts, {i \in 1..Len(ts) : hp[ts[i]].id # id})
    IN Result(hp, ts2, st, IF Len(ts2) # Len(ts) THEN "true" ELSE "false", 0,
              FALSE, FALSE)

removeTask(hp, ts, st, id, ok) ==
    LET ts2 == Filter(ts, {i \in 1..Len(ts) : hp[ts[i]].id # id})
    IN IF Len(ts2) # Len(ts)
       THEN LET sv == Save(Deref(ts2, hp), st, ok)
            IN Result(hp, ts2, sv.stored, IF sv.threw THEN "Error" ELSE "true",
                      0, TRUE, sv.threw)
       ELSE Result(hp, ts2, st, "false", 0, FALSE, FALSE)

\* clearCompleted() written as a forward loop that splices the completed task
\* out and then steps on, passing over the task that moved into its place
RECURSIVE SpliceLoop(_, _, _)
SpliceLoop(ts, hp, i) ==
    IF i > Len(ts) THEN ts
    ELSE IF hp[ts[i]].completed
         THEN SpliceLoop(SubSeq(ts, 1, i - 1) \o SubSeq(ts, i + 1, Len(ts)), hp, i + 1)
         ELSE SpliceLoop(ts, hp, i + 1)

clearCompletedSplice(hp, ts, st, ok) ==
    LET ts2 == SpliceLoop(ts, hp, 1)
    IN IF Len(ts2) # Len(ts)
       THEN LET sv == Save(Deref(ts2, hp), st, ok)
            IN Result(hp, ts2, sv.stored, "undefined", 0, TRUE, sv.threw)
       ELSE Result(hp, ts2, st, "undefined", 0, FALSE, FALSE)

clearCompleted(hp, ts, st, ok) ==
    LET ts2 == Filter(ts, {i \in 1..Len(ts) : ~hp[ts[i]].completed})
    IN IF Len(ts2) # Len(ts)
       THEN LET sv == Save(Deref(ts2, hp), st, ok)
            IN Result(hp, ts2, sv.stored, IF sv.threw THEN "Error" ELSE "undefined",
                      0, TRUE, sv.threw)
       ELSE Result(hp, ts2, st, "undefined", 0, FALSE, FALSE)

getRemainingCount(hp, ts) ==
    Len(Filter(ts, {i \in 1..Len(ts) : ~hp[ts[i]].completed}))

(***************************************************************************)
(* Calls on the TaskManager (specification Spec)                           *)
(***************************************************************************)
\* the record of the call that ran last
Last(op, r, ok) ==
    [op |-> op, ret |-> r.ret, saved |-> r.saved, writeOk |-> r.saved /\ ok,
     threw |-> r.threw, mutated |-> Deref(r.tasks, r.heap) # Deref(tasks, heap)]

NoCall == [op |-> "new", ret |-> "undefined", saved |-> FALSE, writeOk |-> FALSE,
           threw |-> FALSE, mutated |-> FALSE]

\* the updates the model gives: no field, one of id, text and completed, or text
\* and completed together
UpdateFields == {{}, {"id"}, {"text"}, {"completed"}, {"text", "completed"}}

Updates ==
    {Upd(f, IF "id" \in f THEN i ELSE 0, IF "text" \in f THEN t ELSE <<>>,
         IF "completed" \in f THEN c ELSE FALSE) :
        f \in UpdateFields, i \in IDRange, t \in TaskTexts, c \in BOOLEAN}

\* the task records the program writes: trimmed non-empty text
TaskRecords ==
    {Task(i, t, c, n) : i \in IDRange, t \in TaskTexts, c \in BOOLEAN, n \in Times}

\* storage as a session finds it: nothing, text that is no list, or a saved list
SavedEntries ==
    {Missing, Entry(GarbageText), Entry(EmptyText), Entry(ScalarText),
     Entry(JSONstringify(<<>>))} \cup
    {Entry(JSONstringify(<<t>>)) : t \in TaskRecords}

(***************************************************************************)
(* The theme                                                               *)
(***************************************************************************)
Modes == {"light", "dark"}

\* what window.matchMedia gives: no such function, or the system's preference
Systems == {"unavailable", "light", "dark"}

\* the pressed state and the icon of the toggle button in a mode
Pressed(mode) == IF mode = "dark" THEN "true" ELSE "false"
Icon(mode)    == IF mode = "dark" THEN "sun" ELSE "moon"

\* a session before App.start(): no data-theme on body, the button as the page
\* has it, no handler bound. pref is the entry "todo.theme.v1" ("none": no
\* entry). fault is the storage call of the theme that threw last. atStart,
\* chosen and chosenSaved are history: the entry as App.start() found it, the
\* mode of the last toggle, and the mode of the last toggle whose write
\* succeeded.
FreshTheme(system, pref, chosen, chosenSaved) ==
    [system |-> system, pref |-> pref, mode |-> "unset", pressed |-> "unset",
     icon |-> "unset", queried |-> FALSE, bound |-> FALSE, fault |-> "none",
     atStart |-> pref, chosen |-> chosen, chosenSaved |-> chosenSaved]

\* setTheme() without its localStorage.setItem
setThemeNoPersist(th, name, writeOk) ==
    LET mode == IF name = "dark" THEN "dark" ELSE "light"
    IN [th EXCEPT !.mode = mode, !.pressed = Pressed(mode), !.icon = Icon(mode),
                  !.fault = "none"]

\* setTheme(name): writeOk = FALSE is localStorage.setItem throwing, which
\* leaves setTheme after the assignment of data-theme
setTheme(th, name, writeOk) ==
    LET mode == IF name = "dark" THEN "dark" ELSE "light"
    IN IF writeOk
       THEN [th EXCEPT !.mode = mode, !.pref = mode, !.pressed = Pressed(mode),
                       !.icon = Icon(mode), !.fault = "none"]
       ELSE [th EXCEPT !.mode = mode, !.fault = "write"]

\* loadTheme(): readOk = FALSE is localStorage.getItem throwing
loadTheme(th, readOk, writeOk) ==
    IF ~readOk THEN [th EXCEPT !.fault = "read"]
    ELSE IF th.pref # "none" THEN setTheme(th, th.pref, writeOk)
    ELSE LET prefersDark == th.system = "dark"
         IN setTheme([th EXCEPT !.queried = TRUE],
                     IF prefersDark THEN "dark" ELSE "light", writeOk)

\* the theme after an App.start() in which no storage call threw
StartedTheme(system, pref) ==
    [loadTheme(FreshTheme(system, pref, "none", "none"), TRUE, TRUE)
        EXCEPT !.bound = TRUE]

\* the UI has not run: nothing rendered
NoReadout == [n |-> -1, word |-> ""]

InitUnrendered ==
    /\ rows = <<>>
    /\ placeholder = FALSE
    /\ remaining = NoReadout

\* new TaskManager() on the storage of the session
Init ==
    /\ stored \in SavedEntries
    /\ \E readOk \in BOOLEAN :
         LET vals == load(stored, readOk)
         IN heap = HeapOf(vals) /\ tasks = RefsOf(vals)
    /\ fails = 0
    /\ last = NoCall
    /\ InitUnrendered
    /\ theme = FreshTheme("light", "none", "none", "none")

\* what a call leaves behind; objects no list and no row refers to are dropped
Apply(r, call, ok, newRows) ==
    /\ tasks' = r.tasks
    /\ heap' = Restrict(r.heap, Range(r.tasks) \cup {newRows[i].oid : i \in DOMAIN newRows})
    /\ stored' = r.stored
    /\ fails' = IF r.saved /\ ~ok THEN fails + 1 ELSE fails
    /\ last' = call
    /\ rows' = newRows

\* a write may throw (quota, storage disabled); a call that writes nothing has
\* nothing to fail
MayFail(r, ok) == ok \/ (r.saved /\ fails < MaxFails)

AddTask(text, id, now, ok) ==
    /\ Len(tasks) < MaxTasks
    /\ LET r == addTask(heap, tasks, stored, text, id, now, ok)
       IN MayFail(r, ok) /\ Apply(r, Last("addTask", r, ok), ok, rows)
    /\ UNCHANGED <<placeholder, remaining, theme>>

UpdateTask(id, upd, ok) ==
    /\ LET r == updateTask(heap, tasks, stored, id, upd, ok)
       IN MayFail(r, ok) /\ Apply(r, Last("updateTask", r, ok), ok, rows)
    /\ UNCHANGED <<placeholder, remaining, theme>>

RemoveTask(id, ok) ==
    /\ LET r == removeTask(heap, tasks, stored, id, ok)
       IN MayFail(r, ok) /\ Apply(r, Last("removeTask", r, ok), ok, rows)
    /\ UNCHANGED <<placeholder, remaining, theme>>

ClearCompleted(ok) ==
    /\ LET r == clearCompleted(heap, tasks, stored, ok)
       IN MayFail(r, ok) /\ Apply(r, Last("clearCompleted", r, ok), ok, rows)
    /\ UNCHANGED <<placeholder, remaining, theme>>

\* a fresh session on the same storage: new TaskManager()
Reload(readOk) ==
    /\ LET vals == load(stored, readOk)
       IN /\ heap' = HeapOf(vals)
          /\ tasks' = RefsOf(vals)
    /\ last' = [NoCall EXCEPT !.op = "reload", !.threw = ~readOk]
    /\ UNCHANGED <<stored, fails, rows, placeholder, remaining, theme>>

Next ==
    \/ \E text \in InputTexts, id \in IDRange, now \in Times, ok \in BOOLEAN :
          AddTask(text, id, now, ok)
    \/ \E id \in IDRange, upd \in Updates, ok \in BOOLEAN : UpdateTask(id, upd, ok)
    \/ \E id \in IDRange, ok \in BOOLEAN : RemoveTask(id, ok)
    \/ \E ok \in BOOLEAN : ClearCompleted(ok)
    \/ \E readOk \in BOOLEAN : Reload(readOk)

Spec == Init /\ [][Next]_vars

(***************************************************************************)
(* UI module                                                               *)
(***************************************************************************)
\* createTaskElement(task): the row closes over the task object
Row(hp, o) ==
    [oid |-> o, text |-> hp[o].text, editable |-> FALSE,
     checked |-> hp[o].completed, strike |-> hp[o].completed]

\* render(tasks); reading task.id of null in createTaskElement throws, after
\* the list region was emptied and before any row was appended
render(hp, ts) ==
    IF Len(ts) = 0 THEN [rows |-> <<>>, placeholder |-> TRUE, threw |-> FALSE]
    ELSE IF \E i \in 1..Len(ts) : ~IsTask(hp[ts[i]])
         THEN [rows |-> <<>>, placeholder |-> FALSE, threw |-> TRUE]
         ELSE [rows |-> [i \in 1..Len(ts) |-> Row(hp, ts[i])],
               placeholder |-> FALSE, threw |-> FALSE]

\* `${rem} task${rem !== 1 ? "s" : ""} left`
Readout(n) == [n |-> n, word |-> IF n # 1 THEN "tasks" ELSE "task"]

\* updateRemaining()
updateRemaining(hp, ts) == Readout(getRemainingCount(hp, ts))

RemoveAt(seq, k) == SubSeq(seq, 1, k - 1) \o SubSeq(seq, k + 1, Len(seq))

\* focus is on one element at a time: while a row is edited, a gesture on
\* another element first takes the focus from it, which is its blur event
NoEditing == \A k \in 1..Len(rows) : ~rows[k].editable

\* the record of a handler that made no call on the TaskManager
NoResult(ret) ==
    [heap |-> heap, tasks |-> tasks, stored |-> stored, ret |-> ret, ref |-> 0,
     saved |-> FALSE, threw |-> FALSE]

\* App.start() -> UI.init() -> refresh(): the first rendering
InitUI ==
    /\ stored \in SavedEntries
    /\ \E readOk \in BOOLEAN :
         LET vals == load(stored, readOk)
         IN /\ heap = HeapOf(vals)
            /\ tasks = RefsOf(vals)
            /\ rows = render(HeapOf(vals), RefsOf(vals)).rows
            /\ placeholder = render(HeapOf(vals), RefsOf(vals)).placeholder
            /\ remaining = updateRemaining(HeapOf(vals), RefsOf(vals))
    /\ fails = 0
    /\ last = [NoCall EXCEPT !.op = "start"]
    /\ theme = StartedTheme("light", "none")

\* no handler reads createdAt: under SpecUI the clock reads one value
SubmitTimes == {0}

\* submit of #task-form with `text` in #task-input
Submit(text, id, now, ok) ==
    LET trimmed == Trim(text)
    IN /\ NoEditing
       /\ UNCHANGED theme
       /\ IF trimmed = <<>>
          THEN /\ ok
               /\ last' = Last("submit", NoResult("ignored"), ok)
               /\ UNCHANGED <<heap, tasks, stored, fails, rows, placeholder, remaining>>
          ELSE /\ Len(tasks) < MaxTasks
               /\ LET r    == addTask(heap, tasks, stored, trimmed, id, now, ok)
                      view == render(r.heap, r.tasks)
                  IN /\ MayFail(r, ok)
                     /\ IF r.ret = "task"
                        THEN /\ Apply(r, Last("submit", r, ok), ok, view.rows)
                             /\ placeholder' = view.placeholder
                             /\ remaining' = updateRemaining(r.heap, r.tasks)
                        ELSE /\ Apply(r, Last("submit", r, ok), ok, rows)
                             /\ UNCHANGED <<placeholder, remaining>>

\* change event of the checkbox of row k
Toggle(k, ok) ==
    /\ NoEditing
    /\ LET o   == rows[k].oid
           c   == ~rows[k].checked
           hp1 == [heap EXCEPT ![o].completed = c]
           r   == updateTask(hp1, tasks, stored, hp1[o].id,
                             Upd({"completed"}, 0, <<>>, c), ok)
       IN /\ MayFail(r, ok)
          /\ Apply(r, Last("toggle", r, ok), ok,
                   [rows EXCEPT ![k].checked = c, ![k].strike = c])
          /\ remaining' = IF r.threw THEN remaining
                          ELSE updateRemaining(r.heap, r.tasks)
    /\ UNCHANGED <<placeholder, theme>>

\* click on the delete button of row k; `yes` is the answer to confirm()
DeleteClick(k, yes, ok) ==
    /\ NoEditing
    /\ IF ~yes
       THEN /\ ok
            /\ last' = Last("delete", NoResult("declined"), ok)
            /\ UNCHANGED <<heap, tasks, stored, fails, rows, remaining>>
       ELSE LET r == removeTask(heap, tasks, stored, heap[rows[k].oid].id, ok)
            IN /\ MayFail(r, ok)
               /\ IF r.ret = "true"
                  THEN /\ Apply(r, Last("delete", r, ok), ok, RemoveAt(rows, k))
                       /\ remaining' = updateRemaining(r.heap, r.tasks)
                  ELSE /\ Apply(r, Last("delete", r, ok), ok, rows)
                       /\ UNCHANGED remaining
    /\ UNCHANGED <<placeholder, theme>>

\* enableEditMode(): click on the edit button or double click on the text
EnableEdit(k) ==
    /\ NoEditing
    /\ rows' = [rows EXCEPT ![k].editable = TRUE]
    /\ last' = Last("edit", NoResult("undefined"), TRUE)
    /\ UNCHANGED <<heap, tasks, stored, fails, placeholder, remaining, theme>>

\* what the user leaves in an edited text: blank, a text as it is stored, a
\* text that trimming changes
EditContents == {c \in InputTexts : Trim(c) = <<>> \/ c[1] # " "}

\* the blur handler without its test for an empty text
BlurHandlerNoEmptyCheck(op, k, content, yes, ok) ==
    LET o       == rows[k].oid
        newText == Trim(content)
        hp1     == [heap EXCEPT ![o].text = newText]
        r       == updateTask(hp1, tasks, stored, hp1[o].id,
                              Upd({"text"}, 0, newText, FALSE), ok)
    IN /\ MayFail(r, ok)
       /\ Apply(r, Last(op, r, ok), ok,
                [rows EXCEPT ![k].editable = FALSE, ![k].text = content])

\* the blur handler with a declined prompt leaving the emptied text in the row
BlurHandlerNoRevert(op, k, content, yes, ok) ==
    LET o       == rows[k].oid
        newText == Trim(content)
    IN IF newText = <<>>
       THEN IF yes
            THEN LET r == removeTask(heap, tasks, stored, heap[o].id, ok)
                 IN /\ MayFail(r, ok)
                    /\ Apply(r, Last(op, [r EXCEPT !.ret = "confirmed"], ok), ok,
                             RemoveAt(rows, k))
            ELSE /\ ok
                 /\ Apply(NoResult("declined"), Last(op, NoResult("declined"), ok), ok,
                          [rows EXCEPT ![k].editable = FALSE, ![k].text = content])
       ELSE LET hp1 == [heap EXCEPT ![o].text = newText]
                r   == updateTask(hp1, tasks, stored, hp1[o].id,
                                  Upd({"text"}, 0, newText, FALSE), ok)
            IN /\ MayFail(r, ok)
               /\ Apply(r, Last(op, r, ok), ok,
                        [rows EXCEPT ![k].editable = FALSE, ![k].text = content])

\* the blur handler of the text of row k, its textContent being `content`
BlurHandler(op, k, content, yes, ok) ==
    LET o       == rows[k].oid
        newText == Trim(content)
    IN IF newText = <<>>
       THEN IF yes
            THEN LET r == removeTask(heap, tasks, stored, heap[o].id, ok)
                 IN /\ MayFail(r, ok)
                    /\ Apply(r, Last(op, [r EXCEPT !.ret = "confirmed"], ok), ok,
                             IF r.threw THEN [rows EXCEPT ![k].editable = FALSE]
                             ELSE RemoveAt(rows, k))
            ELSE /\ ok
                 /\ Apply(NoResult("declined"), Last(op, NoResult("declined"), ok), ok,
                          [rows EXCEPT ![k].editable = FALSE, ![k].text = heap[o].text])
       ELSE LET hp1 == [heap EXCEPT ![o].text = newText]
                r   == updateTask(hp1, tasks, stored, hp1[o].id,
                                  Upd({"text"}, 0, newText, FALSE), ok)
            IN /\ MayFail(r, ok)
               /\ Apply(r, Last(op, r, ok), ok,
                        [rows EXCEPT ![k].editable = FALSE, ![k].text = content])

\* the edited text loses the focus, or Enter is pressed in it
Blur(k, content, yes, ok) ==
    /\ rows[k].editable
    /\ BlurHandler("commit", k, content, yes, ok)
    /\ UNCHANGED <<placeholder, remaining, theme>>

\* Escape in the text of row k: textContent = task.text, then text.blur()
KeyEscape(k, yes, ok) ==
    /\ IF rows[k].editable
       THEN BlurHandler("cancel", k, heap[rows[k].oid].text, yes, ok)
       ELSE /\ NoEditing
            /\ ok /\ yes
            /\ Apply(NoResult("undefined"), Last("cancel", NoResult("undefined"), ok), ok,
                     [rows EXCEPT ![k].text = heap[rows[k].oid].text])
    /\ UNCHANGED <<placeholder, remaining, theme>>

NextUI ==
    \/ \E text \in InputTexts, id \in IDRange, now \in SubmitTimes, ok \in BOOLEAN :
          Submit(text, id, now, ok)
    \/ \E k \in 1..Len(rows), ok \in BOOLEAN : Toggle(k, ok)
    \/ \E k \in 1..Len(rows), yes \in BOOLEAN, ok \in BOOLEAN : DeleteClick(k, yes, ok)
    \/ \E k \in 1..Len(rows) : EnableEdit(k)
    \/ \E k \in 1..Len(rows), content \in EditContents, yes \in BOOLEAN, ok \in BOOLEAN :
          Blur(k, content, yes, ok)
    \/ \E k \in 1..Len(rows), yes \in BOOLEAN, ok \in BOOLEAN : KeyEscape(k, yes, ok)

SpecUI == InitUI /\ [][NextUI]_vars

(***************************************************************************)
(* Startup on any storage content (specification SpecLoad)                 *)
(***************************************************************************)
\* lists as text in storage: task records and null elements
RECURSIVE ListsUpTo(_, _)
ListsUpTo(elems, n) ==
    IF n = 0 THEN {<<>>}
    ELSE LET shorter == ListsUpTo(elems, n - 1)
         IN shorter \cup {Append(l, e) : l \in {x \in shorter : Len(x) = n - 1}, e \in elems}

AnyEntries ==
    {Missing, Entry(GarbageText), Entry(EmptyText), Entry(ScalarText)} \cup
    {Entry(JSONstringify(l)) : l \in ListsUpTo(TaskRecords \cup {NullVal}, MaxTasks)}

\* before the script runs
InitLoad ==
    /\ stored \in AnyEntries
    /\ heap = <<>>
    /\ tasks = <<>>
    /\ fails = 0
    /\ last = [NoCall EXCEPT !.op = "fresh"]
    /\ InitUnrendered
    /\ theme = FreshTheme("light", "none", "none", "none")

\* new TaskManager(): this.tasks = this.load()
Construct(readOk) ==
    /\ last.op = "fresh"
    /\ LET vals == load(stored, readOk)
       IN /\ heap' = HeapOf(vals)
          /\ tasks' = RefsOf(vals)
    /\ last' = [NoCall EXCEPT !.op = "new", !.threw = ~readOk]
    /\ UNCHANGED <<stored, fails, rows, placeholder, remaining, theme>>

\* App.start(): UI.init() calls refresh(), which renders and then updates the
\* readout; an exception in render leaves through App.start
Start(readOk, writeOk) ==
    /\ last.op = "new"
    /\ LET th   == loadTheme([theme EXCEPT !.atStart = theme.pref], readOk, writeOk)
           view == render(heap, tasks)
       IN IF th.fault # "none"
          THEN /\ theme' = th
               /\ last' = [NoCall EXCEPT !.op = "start", !.threw = TRUE, !.ret = "Error"]
               /\ UNCHANGED <<rows, placeholder, remaining>>
          ELSE /\ theme' = [th EXCEPT !.bound = TRUE]
               /\ rows' = view.rows
               /\ placeholder' = view.placeholder
               /\ remaining' = IF view.threw THEN remaining
                               ELSE updateRemaining(heap, tasks)
               /\ last' = [NoCall EXCEPT !.op = "start", !.threw = view.threw,
                                         !.ret = IF view.threw THEN "TypeError"
                                                 ELSE "undefined"]
    /\ UNCHANGED <<heap, tasks, stored, fails>>

NextLoad ==
    \/ \E readOk \in BOOLEAN : Construct(readOk)
    \/ \E readOk \in BOOLEAN, writeOk \in BOOLEAN : Start(readOk, writeOk)

SpecLoad == InitLoad /\ [][NextLoad]_vars

(***************************************************************************)
(* Sessions and the theme: startup, theme toggle, fresh session            *)
(***************************************************************************)
InitTheme ==
    /\ stored \in SavedEntries
    /\ heap = <<>>
    /\ tasks = <<>>
    /\ fails = 0
    /\ last = [NoCall EXCEPT !.op = "fresh"]
    /\ InitUnrendered
    /\ theme \in {FreshTheme(s, p, "none", "none") :
                     s \in Systems, p \in {"none"} \cup Modes}

\* click on the theme toggle, bound by initEventHandlers(); an exception of
\* setTheme leaves through the handler
ThemeToggle(writeOk) ==
    /\ theme.bound
    /\ LET isDark == theme.mode = "dark"
           name   == IF isDark THEN "light" ELSE "dark"
           th     == setTheme(theme, name, writeOk)
       IN theme' = [th EXCEPT !.chosen = name,
                              !.chosenSaved = IF writeOk THEN name ELSE @]
    /\ last' = [NoCall EXCEPT !.op = "theme", !.threw = ~writeOk,
                              !.ret = IF writeOk THEN "undefined" ELSE "Error"]
    /\ UNCHANGED <<heap, tasks, stored, fails, rows, placeholder, remaining>>

\* the page is loaded again: a fresh session on the same storage
NewSession ==
    /\ last.op \in {"start", "theme"}
    /\ theme' = FreshTheme(theme.system, theme.pref, theme.chosen, theme.chosenSaved)
    /\ heap' = <<>>
    /\ tasks' = <<>>
    /\ rows' = <<>>
    /\ placeholder' = FALSE
    /\ remaining' = NoReadout
    /\ last' = [NoCall EXCEPT !.op = "fresh"]
    /\ UNCHANGED <<stored, fails>>

NextTheme ==
    \/ \E readOk \in BOOLEAN : Construct(readOk)
    \/ \E readOk \in BOOLEAN, writeOk \in BOOLEAN : Start(readOk, writeOk)
    \/ \E writeOk \in BOOLEAN : ThemeToggle(writeOk)
    \/ NewSession

SpecTheme == InitTheme /\ [][NextTheme]_vars

(***************************************************************************)
(* Properties of the TaskManager, stated without the model's operators     *)
(***************************************************************************)
List == Deref(tasks, heap)

\* the text between the first and the last character that is no space
Trimmed(s) ==
    LET solid == {i \in 1..Len(s) : s[i] # " "}
    IN IF solid = {} THEN <<>>
       ELSE SubSeq(s, CHOOSE i \in solid : \A j \in solid : i <= j,
                      CHOOSE i \in solid : \A j \in solid : i >= j)

Held(id) == \E i \in 1..Len(tasks) : heap[tasks[i]].id = id

Pending(o) == ~heap[o].completed

\* what the storage entry deserializes to, a missing or malformed entry being
\* the empty list
Persisted(entry) == load(entry, TRUE)

\* C1: addTask(s) succeeds iff trim(s) is non-empty; on success the new task has
\* text trim(s) and completed false, is first in the list, and the tasks held
\* before follow it in their order; on failure it returns null and neither the
\* list nor the storage entry changes.
C1_AddTask ==
    \A s \in InputTexts, id \in IDRange, now \in Times, ok \in BOOLEAN :
        LET r == addTask(heap, tasks, stored, s, id, now, ok)
        IN IF Trimmed(s) # <<>>
           THEN /\ r.ret = "task"
                /\ r.tasks # <<>>
                /\ Head(r.tasks) = r.ref
                /\ Head(r.tasks) \notin Range(tasks)
                /\ r.heap[Head(r.tasks)].text = Trimmed(s)
                /\ r.heap[Head(r.tasks)].completed = FALSE
                /\ Tail(r.tasks) = tasks
                /\ Deref(Tail(r.tasks), r.heap) = List
           ELSE /\ r.ret = "null"
                /\ r.tasks = tasks
                /\ Deref(r.tasks, r.heap) = List
                /\ r.stored = stored

C1_Witness ==
    /\ last.op = "addTask"
    /\ last.ret = "task"
    /\ Len(tasks) = 2
    /\ heap[tasks[1]].text # heap[tasks[2]].text

\* C2: removeTask(id) for an id held in the list decreases the count by exactly
\* one, leaves the id absent, keeps every other task and returns true; for an id
\* not in the list it changes nothing and returns false.
C2_RemoveTask ==
    \A id \in IDRange, ok \in BOOLEAN :
        LET r == removeTask(heap, tasks, stored, id, ok)
        IN IF Held(id)
           THEN /\ r.ret = "true"
                /\ Len(r.tasks) = Len(tasks) - 1
                /\ \A i \in 1..Len(r.tasks) : r.heap[r.tasks[i]].id # id
                /\ r.tasks = SelectSeq(tasks, LAMBDA o : heap[o].id # id)
                /\ Deref(r.tasks, r.heap) = Deref(r.tasks, heap)
           ELSE /\ r.ret = "false"
                /\ r.tasks = tasks
                /\ Deref(r.tasks, r.heap) = List
                /\ r.stored = stored

\* C4: after every operation that changed the list and whose storage write did
\* not fail, the storage entry deserializes to exactly the list in memory.
C4_PersistedIsList ==
    (last.mutated /\ ~(last.saved /\ ~last.writeOk)) => Persisted(stored) = List

C4_Witness ==
    /\ last.op = "removeTask"
    /\ last.mutated
    /\ last.writeOk
    /\ fails > 0
    /\ Len(tasks) = 1

\* C5: save() then load() in a fresh TaskManager on the same storage gives back
\* the saved list: every task's id, text, completed and createdAt, in order.
C5_RoundTrip ==
    LET sv   == Save(List, stored, TRUE)
        back == load(sv.stored, TRUE)
    IN /\ Len(back) = Len(tasks)
       /\ \A i \in 1..Len(tasks) :
            /\ back[i].id = heap[tasks[i]].id
            /\ back[i].text = heap[tasks[i]].text
            /\ back[i].completed = heap[tasks[i]].completed
            /\ back[i].createdAt = heap[tasks[i]].createdAt

C5_Witness ==
    /\ last.op = "reload"
    /\ Len(tasks) = 2
    /\ heap[tasks[1]] # heap[tasks[2]]
    /\ heap[tasks[1]].completed

\* C6: a storage write that fails raises nothing in the caller, and the call
\* returns what it returns, and leaves the list as it leaves it, with a working
\* storage; only the storage entry keeps its previous value.
SameInMemory(bad, good) ==
    /\ ~bad.threw
    /\ bad.ret = good.ret
    /\ bad.tasks = good.tasks
    /\ bad.heap = good.heap
    /\ bad.saved => bad.stored = stored

C6_WriteFailure ==
    /\ (last.saved /\ ~last.writeOk) => (~last.threw /\ last.ret # "Error")
    /\ \A s \in InputTexts, id \in IDRange, now \in Times :
         SameInMemory(addTask(heap, tasks, stored, s, id, now, FALSE),
                      addTask(heap, tasks, stored, s, id, now, TRUE))
    /\ \A id \in IDRange, upd \in Updates :
         SameInMemory(updateTask(heap, tasks, stored, id, upd, FALSE),
                      updateTask(heap, tasks, stored, id, upd, TRUE))
    /\ \A id \in IDRange :
         SameInMemory(removeTask(heap, tasks, stored, id, FALSE),
                      removeTask(heap, tasks, stored, id, TRUE))
    /\ SameInMemory(clearCompleted(heap, tasks, stored, FALSE),
                    clearCompleted(heap, tasks, stored, TRUE))

C6_Witness ==
    /\ last.saved
    /\ ~last.writeOk
    /\ last.mutated
    /\ Persisted(stored) # List

\* C8: updateTask(id, fields) with an id not in the list returns false, changes
\* no task and writes nothing; with an id in the list it changes only the given
\* fields of one task holding that id, keeps every other field, every other
\* task, the length and the order, writes the list and returns true.
C8_UpdateTask ==
    \A id \in IDRange, upd \in Updates, ok \in BOOLEAN :
        LET r == updateTask(heap, tasks, stored, id, upd, ok)
        IN IF ~Held(id)
           THEN /\ r.ret = "false"
                /\ r.tasks = tasks
                /\ Deref(r.tasks, r.heap) = List
                /\ ~r.saved
                /\ r.stored = stored
           ELSE /\ r.ret = "true"
                /\ r.tasks = tasks
                /\ r.saved
                /\ ok => Persisted(r.stored) = Deref(r.tasks, r.heap)
                /\ \E i \in 1..Len(tasks) :
                     /\ heap[tasks[i]].id = id
                     /\ \A j \in 1..Len(tasks) :
                          tasks[j] # tasks[i] => r.heap[tasks[j]] = heap[tasks[j]]
                     /\ LET before == heap[tasks[i]]
                            after  == r.heap[tasks[i]]
                        IN /\ after.id = IF "id" \in upd.fields THEN upd.id ELSE before.id
                           /\ after.text =
                                IF "text" \in upd.fields THEN upd.text ELSE before.text
                           /\ after.completed =
                                IF "completed" \in upd.fields THEN upd.completed
                                ELSE before.completed
                           /\ after.createdAt = before.createdAt

C8_Witness ==
    /\ last.op = "updateTask"
    /\ last.ret = "true"
    /\ last.mutated
    /\ Len(tasks) = 2

\* C9: clearCompleted() twice in a row leaves the list the first call left, that
\* list holds exactly the tasks that were not completed, in their order, and the
\* second call writes nothing.
C9_ClearCompletedIdempotent ==
    \A ok1 \in BOOLEAN, ok2 \in BOOLEAN :
        LET once  == clearCompleted(heap, tasks, stored, ok1)
            twice == clearCompleted(once.heap, once.tasks, once.stored, ok2)
        IN /\ once.tasks = SelectSeq(tasks, Pending)
           /\ Deref(once.tasks, once.heap) = Deref(once.tasks, heap)
           /\ twice.tasks = once.tasks
           /\ twice.heap = once.heap
           /\ ~twice.saved
           /\ twice.stored = once.stored

C9_Witness ==
    /\ last.op = "clearCompleted"
    /\ last.mutated
    /\ Len(tasks) = 1

\* C10: no two tasks held in the list have the same id, and no call changes the
\* id of a task.
UniqueIds ==
    \A i \in 1..Len(tasks), j \in 1..Len(tasks) :
        i # j => heap[tasks[i]].id # heap[tasks[j]].id

C10_UniqueImmutableIds ==
    [][last'.op # "reload" =>
         /\ UniqueIds'
         /\ \A o \in DOMAIN heap \cap DOMAIN heap' : heap'[o].id = heap[o].id]_vars

(***************************************************************************)
(* Properties of the UI                                                    *)
(***************************************************************************)
\* C3: after every handler, the readout shows the number n of tasks in the
\* store that are not completed, as "1 task left" for n = 1 and "n tasks left"
\* otherwise.
C3_ReadoutIsRemaining ==
    LET n == Cardinality({i \in 1..Len(tasks) : ~heap[tasks[i]].completed})
    IN /\ remaining.n = n
       /\ remaining.word = IF n = 1 THEN "task" ELSE "tasks"

(***************************************************************************)
(* Properties of startup                                                   *)
(***************************************************************************)
\* the entry is a list whose elements all are task records
IsTaskList(entry) ==
    /\ entry.kind = "text"
    /\ entry.text.type = "array"
    /\ \A i \in 1..Len(entry.text.items) : entry.text.items[i].type = "object"

\* C7: load() returns the empty list, raising nothing, when the entry is
\* missing, not parseable, no list, or a list with an element that is no task
\* record, and when the storage read throws; it returns the stored list only
\* when the entry is a list of task records.
C7_LoadMalformedIsEmpty ==
    last.op \in {"new", "start"} =>
        /\ List # <<>> => IsTaskList(stored)
        /\ last.op = "start" => ~last.threw
        /\ (last.op = "new" /\ ~last.threw /\ IsTaskList(stored)) =>
              /\ Len(List) = Len(stored.text.items)
              /\ \A i \in 1..Len(List) :
                   /\ List[i].id = stored.text.items[i].id.str
                   /\ List[i].text = stored.text.items[i].text.str
                   /\ List[i].completed = stored.text.items[i].completed.bool
                   /\ List[i].createdAt = stored.text.items[i].createdAt.num

\* C11: no blank task is ever accepted: after any sequence of UI events every
\* task in the store and in the persisted list has a non-empty text that is its
\* own trim.
ProperText(t) == t.text # <<>> /\ Trimmed(t.text) = t.text

C11_NoBlankTask ==
    /\ \A i \in 1..Len(tasks) : ProperText(heap[tasks[i]])
    /\ \A i \in 1..Len(Persisted(stored)) : ProperText(Persisted(stored)[i])

C11_Witness ==
    /\ last.op = "commit"
    /\ last.ret = "declined"
    /\ Len(tasks) = 2
    /\ \E i \in 1..Len(tasks) : heap[tasks[i]].text = <<"a", "a">>

\* the row whose text is being edited, and the task object behind it
Editing(k) == k \in 1..Len(rows) /\ rows[k].editable

\* C12: Escape on a row in Editing puts back the text of the task, returns the
\* row to Viewing, invokes no store mutation and no storage write, and leaves
\* the stored tasks as they were.
C12_EscapeCancels ==
    [][\A k \in 1..Len(rows) :
         (Editing(k) /\ last'.op = "cancel") =>
             /\ ~last'.saved
             /\ ~last'.mutated
             /\ stored' = stored
             /\ tasks' = tasks
             /\ Deref(tasks', heap') = List
             /\ Len(rows') = Len(rows)
             /\ ~rows'[k].editable
             /\ rows'[k].text = heap[rows[k].oid].text]_vars

\* the persisted list holds no record equal to t
NotPersisted(t, entry) ==
    \A i \in 1..Len(Persisted(entry)) : Persisted(entry)[i] # t

\* an empty commit never changes the text of a task that stays in the store
TextsKept == \A o \in Range(tasks') : heap'[o].text = heap[o].text

\* declining the deletion prompt of row k leaves store and storage alone and
\* puts the row back to Viewing with the text of its task
DeclineKeeps(k) ==
    /\ tasks' = tasks
    /\ Deref(tasks', heap') = List
    /\ stored' = stored
    /\ Len(rows') = Len(rows)
    /\ ~rows'[k].editable
    /\ rows'[k].text = heap[rows[k].oid].text

\* a task object that left the store never comes back
StaysRemoved == \A o \in DOMAIN heap \ Range(tasks) : o \notin Range(tasks')

\* C13 as stated: an empty commit that is confirmed removes the task from the
\* store and from the persisted list and removes its row for good; a declined
\* one changes nothing and shows the pre-edit text in Viewing.
C13_EmptyCommitOriginal ==
    [][/\ \A k \in 1..Len(rows) :
            (Editing(k) /\ last'.op = "commit") =>
               /\ last'.ret = "confirmed" =>
                    /\ rows[k].oid \notin Range(tasks')
                    /\ NotPersisted(heap[rows[k].oid], stored')
                    /\ rows' = RemoveAt(rows, k)
                    /\ TextsKept
               /\ last'.ret = "declined" => DeclineKeeps(k) /\ TextsKept
       /\ StaysRemoved]_vars

\* C13 amended: as C13, the persisted list losing the task when the storage
\* write of the removal succeeds.
C13_EmptyCommit ==
    [][/\ \A k \in 1..Len(rows) :
            (Editing(k) /\ last'.op = "commit") =>
               /\ last'.ret = "confirmed" =>
                    /\ rows[k].oid \notin Range(tasks')
                    /\ last'.writeOk => NotPersisted(heap[rows[k].oid], stored')
                    /\ rows' = RemoveAt(rows, k)
                    /\ TextsKept
               /\ last'.ret = "declined" => DeclineKeeps(k) /\ TextsKept
       /\ StaysRemoved]_vars

C13_Witness ==
    /\ last.op = "commit"
    /\ last.ret = "confirmed"
    /\ last.writeOk
    /\ Len(tasks) = 1
    /\ Len(rows) = 1
    /\ Persisted(stored) = List

\* the list without every occurrence of the object o
Without(ts, o) == SelectSeq(ts, LAMBDA x : x # o)

\* C14: a click on a delete button removes a task only after the prompt is
\* confirmed; declined, it leaves store, storage and display as they were;
\* confirmed, it removes exactly the task of that row from the store, and its
\* row from the display.
C14_DeleteConfirmed ==
    [][last'.op = "delete" =>
         IF last'.ret = "declined"
         THEN /\ tasks' = tasks
              /\ Deref(tasks', heap') = List
              /\ stored' = stored
              /\ rows' = rows
              /\ remaining' = remaining
         ELSE \E k \in 1..Len(rows) :
                /\ rows[k].oid \in Range(tasks)
                /\ tasks' = Without(tasks, rows[k].oid)
                /\ Deref(tasks', heap') = Deref(tasks', heap)
                /\ rows' = RemoveAt(rows, k)]_vars

\* the ids of the visible rows, top to bottom, and of the store's list
RowIds == [i \in 1..Len(rows) |-> heap[rows[i].oid].id]

StoreIds == [i \in 1..Len(tasks) |-> heap[tasks[i]].id]

\* C16: after every handler the ids of the visible rows, in order, are the ids
\* of the store's list.
C16_RowsMatchStore == RowIds = StoreIds

\* C17: after every handler the placeholder is shown exactly when the store is
\* empty.
C17_PlaceholderIffEmpty == placeholder <=> (Len(tasks) = 0)

\* no two task objects alive, in the store or behind a row, have the same id
NoSharedId == \A o1, o2 \in DOMAIN heap : o1 # o2 => heap[o1].id # heap[o2].id

(***************************************************************************)
(* Order of the list and recovery of the storage                           *)
(***************************************************************************)
\* s holds elements of t only, in the order they have in t
KeepsOrder(s, t) == s = SelectSeq(t, LAMBDA o : o \in Range(s))

ManagerOps == {"addTask", "updateTask", "removeTask", "clearCompleted"}

\* C18: addTask puts the new task at the head of the list and leaves the rest
\* as it was; updateTask, removeTask and clearCompleted leave the tasks that
\* remain in the order they had, so the list is newest-first.
C18_NewestFirstStable ==
    [][last'.op \in ManagerOps =>
         IF last'.op = "addTask" /\ last'.ret = "task"
         THEN /\ Len(tasks') = Len(tasks) + 1
              /\ Tail(tasks') = tasks
              /\ Head(tasks') \notin Range(tasks)
         ELSE KeepsOrder(tasks', tasks)]_vars

C18_Witness ==
    /\ last.op = "addTask"
    /\ last.ret = "task"
    /\ Len(tasks) = 2
    /\ heap[tasks[1]].createdAt > heap[tasks[2]].createdAt

\* C19: once a storage write has failed, a later call whose write succeeds
\* leaves the persisted list equal to the whole list in memory.
C19_RecoversAfterFailure ==
    (fails > 0 /\ last.writeOk) => Persisted(stored) = List

C19_Witness ==
    /\ fails > 0
    /\ last.writeOk
    /\ last.mutated
    /\ Len(tasks) = 2

(***************************************************************************)
(* Properties of the theme                                                 *)
(***************************************************************************)
\* the mode a session is to start in: the stored preference, or else the
\* system's when it is available and dark, or else light
Resolved ==
    IF theme.atStart # "none" THEN theme.atStart
    ELSE IF theme.system = "dark" THEN "dark" ELSE "light"

C20_ThemeFailureContained ==
    /\ last.op = "start" =>
          /\ theme.bound
          /\ remaining # NoReadout
          /\ Len(rows) = Len(tasks)
    /\ last.op = "theme" => theme.pressed = Pressed(theme.mode)

====
